---- MODULE Spec2Model ----
(***************************************************************************)
(* webapp2_extras.sessions: the per-request SessionStore, its session      *)
(* factories (backends) and the mutation-tracking SessionDict, followed    *)
(* over a bounded number of consecutive requests of one client.            *)
(*                                                                         *)
(* Encodings.  A Python dict is a TLA+ function whose DOMAIN is the set of *)
(* its keys.  An optional value is a sequence: << >> is None and <<v>> is  *)
(* the value v.  A max_age is an integer number of seconds, NoneAge for    *)
(* None and DEFAULT_VALUE for the webapp2_extras.config.DEFAULT_VALUE      *)
(* marker.  A string that the code inspects character by character (a      *)
(* session id) is a sequence of one-character strings.  An object          *)
(* reference to a SessionDict is its index in heap; 0 is None.             *)
(***************************************************************************)
EXTENDS Integers, Sequences, FiniteSets, TLC

VARIABLES
    now,        \* the clock read by the secure cookie serializer (seconds)
    config,     \* request.app.config['webapp2_extras.sessions']
    cookies,    \* request.cookies of the request being handled: name -> value
    reqNo,      \* number of the request being handled
    phase,      \* "handling" until save_sessions has run, then "saved"
    sessions,   \* SessionStore.sessions: name -> session factory instance
    heap,       \* the SessionDict objects created during this request
    refs,       \* the SessionDict references the handler got from get_session
    response,   \* cookies set on the response: name -> [value, args]
    ret,        \* outcome of the last call: [op, exc, val]
    registry,   \* request.registry of every request in flight: key -> store
    stores      \* the store objects built so far; a reference is an index

vars == <<now, config, cookies, reqNo, phase, sessions, heap, refs, response, ret,
          registry, stores>>

---------------------------------------------------------------------------
(* Bounds of the model. *)

MaxRequests == 3    \* consecutive requests of the client that are followed
MaxTime     == 2    \* the clock runs from 0 to MaxTime
MaxFlash    == 2    \* longest flash list a handler builds up
MaxStores   == 3    \* store objects built while the requests are in flight

(* The requests in flight at the same time, each with its own registry. *)
Requests == {"r1", "r2"}

(* Inputs the handlers draw from. *)
Names      == {"session", "other"}
NameArgs   == {<< >>, <<"">>, <<"session">>, <<"other">>}
PlainKeys  == {"user"}
FlashKeys  == {"_flash"}
Vals       == {"alice", "bob"}
Flash1     == <<"saved!", <<"info">> >>   \* (value, level)
Flash2     == <<"hello", << >> >>         \* level None
FlashPairs == {Flash1, Flash2}

---------------------------------------------------------------------------
(* Python dict primitives. *)

EmptyDict == << >>

Has(d, k) == k \in DOMAIN d

Put(d, k, v) == [x \in DOMAIN d \cup {k} |-> IF x = k THEN v ELSE d[x]]

Remove(d, k) == [x \in DOMAIN d \ {k} |-> d[x]]

Merge(d, m) == [x \in DOMAIN d \cup DOMAIN m |-> IF x \in DOMAIN m THEN m[x] ELSE d[x]]

(* Python truth value of a dict or of None-or-dict: empty is false. *)
Truthy(d) == DOMAIN d # {}

---------------------------------------------------------------------------
(* Configuration. *)

DEFAULT_VALUE == 0 - 2
NoneAge       == 0 - 1

default_config ==
    [ secret_key      |-> "s3cret",
      cookie_name     |-> "session",
      session_max_age |-> NoneAge,
      cookie_args     |-> [ max_age  |-> NoneAge,
                            domain   |-> << >>,
                            path     |-> "/",
                            secure   |-> << >>,
                            httponly |-> FALSE ] ]

---------------------------------------------------------------------------
(* securecookie.SecureCookieSerializer: the signer.  A token is the triple *)
(* <<encoded payload, timestamp, signature>>; the signature is the HMAC of *)
(* the cookie name, the encoded payload and the timestamp under the secret *)
(* key, kept symbolic.  Anything that is not such a triple is malformed.   *)

Encode(value) == <<"json", value>>

Decode(encoded) == encoded[2]

Signature(key, name, encoded, timestamp) == <<"hmac", key, name, encoded, timestamp>>

serialize(name, value) ==
    LET encoded == Encode(value)
    IN  <<encoded, now, Signature(config.secret_key, name, encoded, now)>>

deserialize(name, value, max_age) ==
    IF Len(value) # 3 THEN << >>
    ELSE IF value[3] # Signature(config.secret_key, name, value[1], value[2]) THEN << >>
    ELSE IF max_age # NoneAge /\ now - value[2] > max_age THEN << >>
    ELSE <<Decode(value[1])>>

---------------------------------------------------------------------------
(* class _UpdateDictMixin, class SessionDict.  A SessionDict is the record *)
(* [container, new, modified, data].  Every operation returns the record   *)
(* [sd, exc, val]: the object after the call, the exception raised ("" for *)
(* a normal return) and the optional return value.                         *)

SessionDict(container, data, new) ==
    [ container |-> container,
      new       |-> new,
      modified  |-> FALSE,
      data      |-> IF data = << >> THEN EmptyDict ELSE data[1] ]

(* on_update that does not record the change. *)
on_update_forgets(sd) == sd

on_update(sd) == [sd EXCEPT !.modified = TRUE]

Returns(sd, val) == [sd |-> sd, exc |-> "", val |-> val]

Raises(sd, exc) == [sd |-> sd, exc |-> exc, val |-> << >>]

SessionDict_setitem(sd, key, value) ==
    Returns(on_update([sd EXCEPT !.data = Put(@, key, value)]), << >>)

SessionDict_delitem(sd, key) ==
    IF Has(sd.data, key)
    THEN Returns(on_update([sd EXCEPT !.data = Remove(@, key)]), << >>)
    ELSE Raises(sd, "KeyError")

SessionDict_clear(sd) ==
    Returns(on_update([sd EXCEPT !.data = EmptyDict]), << >>)

(* _UpdateDictMixin.pop, reached through super() from SessionDict.pop. *)
UpdateDictMixin_pop(sd, key, args) ==
    IF Has(sd.data, key)
    THEN Returns(on_update([sd EXCEPT !.data = Remove(@, key)]), <<sd.data[key]>>)
    ELSE IF args # << >>
    THEN Returns(on_update(sd), <<args[1]>>)
    ELSE Raises(sd, "KeyError")

(* pop without SessionDict's override: the mixin's pop alone. *)
SessionDict_pop_inherited(sd, key, args) == UpdateDictMixin_pop(sd, key, args)

SessionDict_pop(sd, key, args) ==
    IF Has(sd.data, key) THEN UpdateDictMixin_pop(sd, key, args)
    ELSE IF args # << >> THEN Returns(sd, <<args[1]>>)
    ELSE Raises(sd, "KeyError")

(* popitem removes the pair the dict's internal order puts last: any key. *)
SessionDict_popitem(sd, key) ==
    IF ~Truthy(sd.data) THEN Raises(sd, "KeyError")
    ELSE Returns(on_update([sd EXCEPT !.data = Remove(@, key)]), <<key, sd.data[key]>>)

SessionDict_setdefault(sd, key, default) ==
    LET data == IF Has(sd.data, key) THEN sd.data ELSE Put(sd.data, key, default)
    IN  Returns(on_update([sd EXCEPT !.data = data]), <<data[key]>>)

SessionDict_update(sd, mapping) ==
    Returns(on_update([sd EXCEPT !.data = Merge(@, mapping)]), << >>)

SessionDict_get(sd, key, default) ==
    Returns(sd, IF Has(sd.data, key) THEN <<sd.data[key]>> ELSE <<default>>)

get_flashes(sd, key) == SessionDict_pop(sd, key, << << >> >>)

(* add_flash that puts the new pair first. *)
add_flash_prepends(sd, value, level, key) ==
    LET r == SessionDict_setdefault(sd, key, << >>)
    IN  Returns([r.sd EXCEPT !.data[key] = <<(<<value, level>>)>> \o @], << >>)

add_flash(sd, value, level, key) ==
    LET r == SessionDict_setdefault(sd, key, << >>)
    IN  Returns([r.sd EXCEPT !.data[key] = Append(@, <<value, level>>)], << >>)

---------------------------------------------------------------------------
(* class BaseSessionFactory, class CustomBackendSessionFactory: session    *)
(* ids.  None and '' are both false in `sid and ...` and are both << >>.   *)

SecureCookieSessionFactory  == "SecureCookieSessionFactory"
CustomBackendSessionFactory == "CustomBackendSessionFactory"
Factories == {SecureCookieSessionFactory, CustomBackendSessionFactory}

SidLen == 32

HexChars == {"0", "1", "2", "3", "4", "5", "6", "7", "8", "9",
             "a", "b", "c", "d", "e", "f"}

(* re.compile(r'^[a-f0-9]{32}$').match(sid): `$` matches at the end of the *)
(* string and also just before a newline that ends the string.             *)
sid_re_match(sid) ==
    /\ Len(sid) \in {SidLen, SidLen + 1}
    /\ \A i \in 1..SidLen : sid[i] \in HexChars
    /\ Len(sid) = SidLen + 1 => sid[SidLen + 1] = "\n"

is_valid_sid(sid) == sid # << >> /\ sid_re_match(sid)

SidA == [i \in 1..SidLen |-> "a"]
SidB == [i \in 1..SidLen |-> IF i % 2 = 0 THEN "0" ELSE "f"]
SidUpper == [i \in 1..SidLen |-> "A"]

(* The ids uuid.uuid4().hex may return. *)
NewSids == {SidB}

(* The external id -> data store of a concrete backend (read only here). *)
Backing == (SidA :> [user |-> "alice"])

(* A dict that is held in several places is the record [id, items]: the   *)
(* identity of the object and its items.  config['cookie_args'] is one.    *)
ConfigCookieArgs == [id |-> "config", items |-> config.cookie_args]

(* dict.copy(): another object, named id, with the same items. *)
dict_copy(d, id) == [id |-> id, items |-> d.items]

(* update(kwargs) on the dict object id, as each backend holding it sees it. *)
session_args_update(sessions_, id, kwargs) ==
    [ n \in DOMAIN sessions_ |->
        IF sessions_[n].session_args.id = id
        THEN [sessions_[n] EXCEPT !.session_args.items = Merge(@, kwargs)]
        ELSE sessions_[n] ]

(* ... and as the configuration sees it. *)
cookie_args_update(id, kwargs) ==
    IF ConfigCookieArgs.id = id THEN Merge(config.cookie_args, kwargs)
    ELSE config.cookie_args

(* __init__ that keeps the configured dict itself. *)
BaseSessionFactory_init_shares(name, factory) ==
    [ name         |-> name,
      factory      |-> factory,
      session_args |-> ConfigCookieArgs,
      session      |-> 0,
      sid          |-> << >> ]

BaseSessionFactory_init(name, factory) ==
    [ name         |-> name,
      factory      |-> factory,
      session_args |-> dict_copy(ConfigCookieArgs, name),
      session      |-> 0,
      sid          |-> << >> ]

---------------------------------------------------------------------------
(* class SessionStore.  st is the pair [sessions, heap]: the factories the *)
(* store tracks and the SessionDict objects they refer to.                 *)

get_secure_cookie(name, max_age) ==
    LET age   == IF max_age = DEFAULT_VALUE THEN config.session_max_age ELSE max_age
        value == IF Has(cookies, name) THEN cookies[name] ELSE << >>
    IN  IF value # << >> THEN deserialize(name, value, age) ELSE << >>

(* save_secure_cookie that leaves out the cookie of an unmodified session. *)
save_secure_cookie_if_modified(resp, name, value, kwargs) ==
    IF /\ Has(sessions, name)
       /\ sessions[name].session # 0
       /\ ~heap[sessions[name].session].modified
    THEN resp
    ELSE Put(resp, name, [value |-> serialize(name, value), args |-> kwargs])

save_secure_cookie(resp, name, value, kwargs) ==
    Put(resp, name, [value |-> serialize(name, value), args |-> kwargs])

(* _get_session_container that replaces a factory of another class. *)
get_session_container_rebinds(st, name, factory) ==
    IF ~Has(st.sessions, name) \/ st.sessions[name].factory # factory
    THEN [st EXCEPT !.sessions = Put(@, name, BaseSessionFactory_init(name, factory))]
    ELSE st

get_session_container(st, name, factory) ==
    IF ~Has(st.sessions, name)
    THEN [st EXCEPT !.sessions = Put(@, name, BaseSessionFactory_init(name, factory))]
    ELSE st

(* get_session that reads the cookie again on every call. *)
SecureCookieSessionFactory_get_session_uncached(st, name, max_age) ==
    LET data == get_secure_cookie(name, max_age)
        new  == data = << >>
        ref  == Len(st.heap) + 1
    IN  [ st  |-> [ sessions |-> [st.sessions EXCEPT ![name].session = ref],
                    heap     |-> Append(st.heap, SessionDict(name, data, new)) ],
          exc |-> "", val |-> ref ]

(* get_session that takes `new` for "the cookie held data". *)
SecureCookieSessionFactory_get_session_new_inverted(st, name, max_age) ==
    IF st.sessions[name].session = 0
    THEN LET data == get_secure_cookie(name, max_age)
             new  == data # << >>
             ref  == Len(st.heap) + 1
         IN  [ st  |-> [ sessions |-> [st.sessions EXCEPT ![name].session = ref],
                         heap     |-> Append(st.heap, SessionDict(name, data, new)) ],
               exc |-> "", val |-> ref ]
    ELSE [st |-> st, exc |-> "", val |-> st.sessions[name].session]

(* get_session of a factory returns [st, exc, val]; val is the reference. *)
SecureCookieSessionFactory_get_session(st, name, max_age) ==
    IF st.sessions[name].session = 0
    THEN LET data == get_secure_cookie(name, max_age)
             new  == data = << >>
             ref  == Len(st.heap) + 1
         IN  [ st  |-> [ sessions |-> [st.sessions EXCEPT ![name].session = ref],
                         heap     |-> Append(st.heap, SessionDict(name, data, new)) ],
               exc |-> "", val |-> ref ]
    ELSE [st |-> st, exc |-> "", val |-> st.sessions[name].session]

(* _get_by_sid of a concrete backend: [sid, sd]. *)
get_by_sid(name, sid, fresh) ==
    IF is_valid_sid(sid) /\ sid \in DOMAIN Backing
    THEN [sid |-> sid, sd |-> SessionDict(name, <<Backing[sid]>>, FALSE)]
    ELSE [sid |-> fresh, sd |-> SessionDict(name, << >>, TRUE)]

CustomBackendSessionFactory_get_session(st, name, max_age, fresh) ==
    IF st.sessions[name].session = 0
    THEN LET data == get_secure_cookie(name, max_age)
             sid  == IF data # << >> /\ Truthy(data[1]) /\ Has(data[1], "_sid")
                     THEN data[1]["_sid"] ELSE << >>
             got  == get_by_sid(name, sid, fresh)
             ref  == Len(st.heap) + 1
         IN  [ st  |-> [ sessions |-> [st.sessions EXCEPT ![name].session = ref,
                                                          ![name].sid = got.sid],
                         heap     |-> Append(st.heap, got.sd) ],
               exc |-> "", val |-> ref ]
    ELSE [st |-> st, exc |-> "", val |-> st.sessions[name].session]

(* get_session that checks the cookie against max_age on every call and   *)
(* starts a new session when it fails.                                     *)
container_get_session_rechecks(st, name, max_age, fresh) ==
    IF st.sessions[name].session # 0 /\ get_secure_cookie(name, max_age) = << >>
    THEN SecureCookieSessionFactory_get_session(
             [st EXCEPT !.sessions[name].session = 0], name, max_age)
    ELSE IF st.sessions[name].factory = SecureCookieSessionFactory
    THEN SecureCookieSessionFactory_get_session(st, name, max_age)
    ELSE CustomBackendSessionFactory_get_session(st, name, max_age, fresh)

container_get_session(st, name, max_age, fresh) ==
    IF st.sessions[name].factory = SecureCookieSessionFactory
    THEN SecureCookieSessionFactory_get_session(st, name, max_age)
    ELSE CustomBackendSessionFactory_get_session(st, name, max_age, fresh)

(* get_session that takes an explicit None for an omitted max_age. *)
SessionStore_get_session_none_is_default(st, name_arg, max_age_arg, factory, fresh) ==
    LET name    == IF name_arg # << >> /\ name_arg[1] # ""
                   THEN name_arg[1] ELSE config.cookie_name
        max_age == IF max_age_arg \in {DEFAULT_VALUE, NoneAge}
                   THEN config.session_max_age ELSE max_age_arg
    IN  container_get_session(get_session_container(st, name, factory),
                              name, max_age, fresh)

SessionStore_get_session(st, name_arg, max_age_arg, factory, fresh) ==
    LET name    == IF name_arg # << >> /\ name_arg[1] # ""
                   THEN name_arg[1] ELSE config.cookie_name
        max_age == IF max_age_arg = DEFAULT_VALUE
                   THEN config.session_max_age ELSE max_age_arg
    IN  container_get_session(get_session_container(st, name, factory),
                              name, max_age, fresh)

(* set_secure_cookie without its assertion: the session is resolved before *)
(* dict.update rejects the value.                                          *)
set_secure_cookie_unasserted(st, name, value, kwargs, fresh) ==
    LET st1 == get_session_container(st, name, SecureCookieSessionFactory)
        got == container_get_session(st1, name, DEFAULT_VALUE, fresh)
        upd == SessionDict_update(got.st.heap[got.val], value.items)
        id  == got.st.sessions[name].session_args.id
    IN  IF value.type # "dict"
        THEN [ st |-> got.st, cookie_args |-> config.cookie_args,
               exc |-> "ValueError", val |-> 0 ]
        ELSE [ st  |-> [ sessions |-> session_args_update(got.st.sessions, id, kwargs),
                         heap     |-> [got.st.heap EXCEPT ![got.val] = upd.sd] ],
               cookie_args |-> cookie_args_update(id, kwargs),
               exc |-> "", val |-> 0 ]

(* value is [type, items]: a dict with its items, or another type.  The    *)
(* result carries the items of config['cookie_args'] after the call.       *)
set_secure_cookie(st, name, value, kwargs, fresh) ==
    IF value.type # "dict"
    THEN [st |-> st, cookie_args |-> config.cookie_args, exc |-> "AssertionError", val |-> 0]
    ELSE LET st1 == get_session_container(st, name, SecureCookieSessionFactory)
             got == container_get_session(st1, name, DEFAULT_VALUE, fresh)
             upd == SessionDict_update(got.st.heap[got.val], value.items)
             id  == got.st.sessions[name].session_args.id
         IN  [ st  |-> [ sessions |-> session_args_update(got.st.sessions, id, kwargs),
                         heap     |-> [got.st.heap EXCEPT ![got.val] = upd.sd] ],
               cookie_args |-> cookie_args_update(id, kwargs),
               exc |-> "", val |-> 0 ]

(* save_session that writes the data the cookie of the request held. *)
SecureCookieSessionFactory_save_session_stale(st, name, resp) ==
    LET self == st.sessions[name]
        old  == get_secure_cookie(name, NoneAge)
    IN  IF \/ self.session = 0
           \/ ~Truthy(st.heap[self.session].data)
           \/ ~st.heap[self.session].modified
        THEN resp
        ELSE save_secure_cookie(resp, name,
                                IF old = << >> THEN EmptyDict ELSE old[1],
                                self.session_args.items)

(* save_session that does not look at the modified flag. *)
SecureCookieSessionFactory_save_session_always(st, name, resp) ==
    LET self == st.sessions[name]
    IN  IF self.session = 0 \/ ~Truthy(st.heap[self.session].data)
        THEN resp
        ELSE save_secure_cookie(resp, name, st.heap[self.session].data, self.session_args.items)

SecureCookieSessionFactory_save_session(st, name, resp) ==
    LET self == st.sessions[name]
    IN  IF \/ self.session = 0
           \/ ~Truthy(st.heap[self.session].data)
           \/ ~st.heap[self.session].modified
        THEN resp
        ELSE save_secure_cookie(resp, name, st.heap[self.session].data, self.session_args.items)

(* save_session of a concrete backend: the cookie carries the id alone. *)
CustomBackendSessionFactory_save_session(st, name, resp) ==
    LET self == st.sessions[name]
    IN  IF self.session = 0 \/ ~st.heap[self.session].modified
        THEN resp
        ELSE save_secure_cookie(resp, name, [_sid |-> self.sid], self.session_args.items)

container_save_session(st, name, resp) ==
    IF st.sessions[name].factory = SecureCookieSessionFactory
    THEN SecureCookieSessionFactory_save_session(st, name, resp)
    ELSE CustomBackendSessionFactory_save_session(st, name, resp)

RECURSIVE save_each(_, _, _)
save_each(st, todo, resp) ==
    IF todo = {} THEN resp
    ELSE LET name == CHOOSE n \in todo : TRUE
         IN  save_each(st, todo \ {name}, container_save_session(st, name, resp))

save_sessions(st, resp) == save_each(st, DOMAIN st.sessions, resp)

---------------------------------------------------------------------------
(* The state machine: one client, one request at a time.  An action is a   *)
(* call made while the request is handled; its inputs are drawn from the   *)
(* sets it is given.                                                       *)

Keys == PlainKeys \cup FlashKeys

MaxAgeArgs == {DEFAULT_VALUE, NoneAge, 0, 1}

UpdateArgs == {EmptyDict} \cup {[user |-> v] : v \in Vals}

CookieValueArgs ==
    { [type |-> "dict", items |-> m] : m \in {EmptyDict, [user |-> "bob"]} } \cup
    { [type |-> "str", items |-> EmptyDict] }

CookieKwargs == {EmptyDict, [path |-> "/app", httponly |-> TRUE]}

RawCookieValues == {EmptyDict, [user |-> "alice"], [_sid |-> SidA], [_sid |-> SidUpper]}

(* The token serialize(name, value) returned at time timestamp. *)
Token(name, value, timestamp) ==
    LET encoded == Encode(value)
    IN  <<encoded, timestamp,
          Signature(default_config.secret_key, name, encoded, timestamp)>>

Forged ==
    LET encoded == Encode([user |-> "bob"])
    IN  <<encoded, 0, Signature("guess", "session", encoded, 0)>>

(* Cookies that do not verify: an empty value, a malformed value, a token  *)
(* signed with another key.                                                *)
BadCookies ==
    {[session |-> << >>], [session |-> <<"garbage">>], [session |-> Forged]}

(* Cookies an earlier response of this application set at time 0. *)
IssuedCookies ==
    { [session |-> Token("session", d, 0)] :
        d \in { [user |-> "alice"],
                [_flash |-> <<Flash1>>],
                [user |-> "bob", _flash |-> <<Flash1, Flash2>>] } }

Store == [sessions |-> sessions, heap |-> heap]

(* The record of a call: what was called, on which SessionDict (0: on the *)
(* store), for which session name, with which key and optional default,   *)
(* and how it ended.                                                      *)
Result(op, self, name, key, args, exc, val) ==
    [ op |-> op, self |-> self, name |-> name, key |-> key, args |-> args,
      exc |-> exc, val |-> val ]

InitWith(first_cookies, session_max_ages) ==
    /\ now = 0
    /\ config \in {[default_config EXCEPT !.session_max_age = a] : a \in session_max_ages}
    /\ cookies \in first_cookies
    /\ reqNo = 1
    /\ phase = "handling"
    /\ sessions = EmptyDict
    /\ heap = << >>
    /\ refs = {}
    /\ response = EmptyDict
    /\ ret = Result("request", 0, "", "", << >>, "", << >>)
    /\ registry = [request \in Requests |-> EmptyDict]
    /\ stores = << >>

Tick ==
    /\ now < MaxTime
    /\ now' = now + 1
    /\ UNCHANGED <<config, cookies, reqNo, phase, sessions, heap, refs, response, ret>>
    /\ UNCHANGED <<registry, stores>>

GetSessionWith(name_args, max_age_args, factories) ==
    /\ phase = "handling"
    /\ \E name_arg \in name_args, max_age \in max_age_args, factory \in factories,
          fresh \in NewSids :
          LET r == SessionStore_get_session(Store, name_arg, max_age, factory, fresh)
          IN  /\ sessions' = r.st.sessions
              /\ heap' = r.st.heap
              /\ refs' = refs \cup {r.val}
              /\ ret' = Result("get_session", 0, heap'[r.val].container, "",
                               <<max_age, name_arg, factory>>, r.exc, <<r.val>>)
    /\ UNCHANGED <<now, config, cookies, reqNo, phase, response>>
    /\ UNCHANGED <<registry, stores>>

SetSecureCookie ==
    /\ phase = "handling"
    /\ \E name \in Names, value \in CookieValueArgs, kwargs \in CookieKwargs,
          fresh \in NewSids :
          LET r == set_secure_cookie(Store, name, value, kwargs, fresh)
          IN  /\ sessions' = r.st.sessions
              /\ heap' = r.st.heap
              /\ config' = [config EXCEPT !.cookie_args = r.cookie_args]
              /\ ret' = Result("set_secure_cookie", 0, name, "", <<value, kwargs>>, r.exc, << >>)
    /\ UNCHANGED <<now, cookies, reqNo, phase, refs, response>>
    /\ UNCHANGED <<registry, stores>>

GetSecureCookie ==
    /\ phase = "handling"
    /\ \E name \in Names, max_age \in MaxAgeArgs :
          ret' = Result("get_secure_cookie", 0, name, "", <<max_age>>, "",
                        get_secure_cookie(name, max_age))
    /\ UNCHANGED <<now, config, cookies, reqNo, phase, sessions, heap, refs, response>>
    /\ UNCHANGED <<registry, stores>>

SaveSecureCookie ==
    /\ phase = "handling"
    /\ \E name \in Names, value \in RawCookieValues :
          /\ response' = save_secure_cookie(response, name, value, EmptyDict)
          /\ ret' = Result("save_secure_cookie", 0, name, "", <<value>>, "", << >>)
    /\ UNCHANGED <<now, config, cookies, reqNo, phase, sessions, heap, refs>>
    /\ UNCHANGED <<registry, stores>>

(* The handler writes the session_args of a backend the store tracks. *)
UpdateSessionArgs ==
    /\ phase = "handling"
    /\ \E name \in DOMAIN sessions, kwargs \in CookieKwargs \ {EmptyDict} :
          LET id == sessions[name].session_args.id
          IN  /\ sessions' = session_args_update(sessions, id, kwargs)
              /\ config' = [config EXCEPT !.cookie_args = cookie_args_update(id, kwargs)]
              /\ ret' = Result("session_args.update", 0, name, "", <<kwargs>>, "", << >>)
    /\ UNCHANGED <<now, cookies, reqNo, phase, heap, refs, response>>
    /\ UNCHANGED <<registry, stores>>

(* A call on the SessionDict behind the reference c, with outcome r. *)
Call(op, c, key, args, r) ==
    /\ heap' = [heap EXCEPT ![c] = r.sd]
    /\ ret' = Result(op, c, heap[c].container, key, args, r.exc, r.val)
    /\ UNCHANGED <<now, config, cookies, reqNo, phase, sessions, refs, response>>
    /\ UNCHANGED <<registry, stores>>

SetItem ==
    /\ phase = "handling"
    /\ \E c \in refs, key \in PlainKeys, value \in Vals :
          Call("__setitem__", c, key, << >>, SessionDict_setitem(heap[c], key, value))

DelItem ==
    /\ phase = "handling"
    /\ \E c \in refs, key \in Keys :
          Call("__delitem__", c, key, << >>, SessionDict_delitem(heap[c], key))

Clear ==
    /\ phase = "handling"
    /\ \E c \in refs : Call("clear", c, "", << >>, SessionDict_clear(heap[c]))

Pop ==
    /\ phase = "handling"
    /\ \E c \in refs, key \in Keys, args \in {<< >>, <<"default">>} :
          Call("pop", c, key, args, SessionDict_pop(heap[c], key, args))

PopItem ==
    /\ phase = "handling"
    /\ \E c \in refs :
          IF Truthy(heap[c].data)
          THEN \E key \in DOMAIN heap[c].data :
                  Call("popitem", c, key, << >>, SessionDict_popitem(heap[c], key))
          ELSE Call("popitem", c, "", << >>, SessionDict_popitem(heap[c], ""))

SetDefault ==
    /\ phase = "handling"
    /\ \E c \in refs, key \in PlainKeys, default \in Vals :
          Call("setdefault", c, key, << >>, SessionDict_setdefault(heap[c], key, default))

Update ==
    /\ phase = "handling"
    /\ \E c \in refs, mapping \in UpdateArgs :
          Call("update", c, "", << >>, SessionDict_update(heap[c], mapping))

Get ==
    /\ phase = "handling"
    /\ \E c \in refs, key \in PlainKeys :
          Call("get", c, key, << >>, SessionDict_get(heap[c], key, "default"))

GetFlashes ==
    /\ phase = "handling"
    /\ \E c \in refs, key \in FlashKeys :
          Call("get_flashes", c, key, << >>, get_flashes(heap[c], key))

AddFlash ==
    /\ phase = "handling"
    /\ \E c \in refs, key \in FlashKeys, pair \in FlashPairs :
          /\ Has(heap[c].data, key) => Len(heap[c].data[key]) < MaxFlash
          /\ Call("add_flash", c, key, <<pair>>,
                  add_flash(heap[c], pair[1], pair[2], key))

SaveSessions ==
    /\ phase = "handling"
    /\ response' = save_sessions(Store, response)
    /\ phase' = "saved"
    /\ ret' = Result("save_sessions", 0, "", "", << >>, "", << >>)
    /\ UNCHANGED <<now, config, cookies, reqNo, sessions, heap, refs>>
    /\ UNCHANGED <<registry, stores>>

(* The client sends the cookies it holds, replaced by those just set. *)
NewRequest ==
    /\ phase = "saved"
    /\ reqNo < MaxRequests
    /\ reqNo' = reqNo + 1
    /\ cookies' = Merge(cookies, [n \in DOMAIN response |-> response[n].value])
    /\ phase' = "handling"
    /\ sessions' = EmptyDict
    /\ heap' = << >>
    /\ refs' = {}
    /\ response' = EmptyDict
    /\ ret' = Result("request", 0, "", "", << >>, "", << >>)
    /\ UNCHANGED <<now, config>>
    /\ UNCHANGED <<registry, stores>>

---------------------------------------------------------------------------
(* Spec: one request on the default session, every SessionDict operation.  *)

Init == InitWith({EmptyDict} \cup BadCookies \cup IssuedCookies, {NoneAge, 1})

GetSession ==
    GetSessionWith({<< >>, <<"">>, <<"session">>}, MaxAgeArgs, {SecureCookieSessionFactory})

Next ==
    \/ Tick
    \/ GetSession
    \/ SetItem
    \/ DelItem
    \/ Clear
    \/ Pop
    \/ PopItem
    \/ SetDefault
    \/ Update
    \/ Get
    \/ GetFlashes
    \/ AddFlash
    \/ SaveSessions

Spec == Init /\ [][Next]_vars

---------------------------------------------------------------------------
(* SpecStore: one request on a store with two session names and both       *)
(* factories, with set_secure_cookie.                                      *)

StoreCookies ==
    { EmptyDict,
      [ session |-> Token("session", [user |-> "alice"], 0),
        other   |-> Token("other", [_sid |-> SidA], 0) ] }

InitStore == InitWith(StoreCookies, {NoneAge})

GetSessionAny == GetSessionWith(NameArgs, {DEFAULT_VALUE}, Factories)

NextStore ==
    \/ GetSessionAny
    \/ SetSecureCookie
    \/ UpdateSessionArgs
    \/ SetItem
    \/ Get
    \/ Clear
    \/ SaveSessions

SpecStore == InitStore /\ [][NextStore]_vars

---------------------------------------------------------------------------
(* SpecFlow: consecutive requests of a client that starts without cookies; *)
(* each handler uses the default session and ends with save_sessions.      *)

InitFlow == InitWith({EmptyDict}, {NoneAge, 1})

GetSessionDefault ==
    GetSessionWith({<< >>}, {DEFAULT_VALUE}, {SecureCookieSessionFactory})

NextFlow ==
    \/ Tick
    \/ GetSessionDefault
    \/ SetItem
    \/ GetFlashes
    \/ AddFlash
    \/ SaveSessions
    \/ NewRequest

SpecFlow == InitFlow /\ [][NextFlow]_vars

---------------------------------------------------------------------------
(* Properties of one request (Spec). *)

(* The SessionDict a tracked factory refers to. *)
Tracked(name) == heap[sessions[name].session]

Resolved(name) == Has(sessions, name) /\ sessions[name].session # 0

CookieBacked(name) ==
    Has(sessions, name) /\ sessions[name].factory = SecureCookieSessionFactory

(* The step is a call of the handler: every step but the clock's and the  *)
(* arrival of the next request.                                            *)
IsCall == now' = now /\ reqNo' = reqNo

(* C1: when save_sessions runs, every cookie-backed session that was       *)
(* created by get_session and is modified gets a cookie of its name set on *)
(* the response, and the cookie's verified payload is the session's        *)
(* current data, whatever that data is (also when no key is left).         *)
C1_ModifiedSessionIsSaved ==
    [][ SaveSessions =>
          \A name \in DOMAIN sessions :
             CookieBacked(name) /\ Resolved(name) /\ Tracked(name).modified
             => /\ Has(response', name)
                /\ deserialize(name, response'[name].value, NoneAge)
                     = <<Tracked(name).data>> ]_vars

(* C2: a SessionDict is unmodified when created (empty or filled from the  *)
(* cookie); a normal return of __setitem__, __delitem__, clear, update,    *)
(* setdefault or pop of a present key leaves it modified; and no call ever *)
(* turns a modified SessionDict unmodified.                                *)
C2_ModifiedFlag ==
    [][ /\ \A c \in DOMAIN heap' \ DOMAIN heap : ~heap'[c].modified
        /\ \A c \in DOMAIN heap \cap DOMAIN heap' :
              heap[c].modified => heap'[c].modified
        /\ ( /\ IsCall
             /\ ret'.op \in {"__setitem__", "__delitem__", "clear", "update",
                             "setdefault", "pop"}
             /\ ret'.exc = ""
             /\ ret'.op = "pop" => Has(heap[ret'.self].data, ret'.key) )
           => heap'[ret'.self].modified ]_vars

(* A filled-from-cookie SessionDict that is modified, after a call on it raised. *)
C2_Witness ==
    \E c \in DOMAIN heap :
       /\ heap[c].modified /\ ~heap[c].new
       /\ ret.self = c /\ ret.op = "pop" /\ ret.exc = "KeyError"

(* C3: save_sessions sets no cookie for a cookie-backed name whose          *)
(* SessionDict was never created, or was created and never modified.       *)
C3_NoOpSave ==
    [][ SaveSessions =>
          \A name \in Names :
             ( \/ ~Has(sessions, name)
               \/ CookieBacked(name) /\ ~Resolved(name)
               \/ CookieBacked(name) /\ Resolved(name) /\ ~Tracked(name).modified )
             => /\ Has(response', name) = Has(response, name)
                /\ Has(response, name) => response'[name] = response[name] ]_vars

(* save_sessions has run on a store with a session that was read from the  *)
(* cookie and never modified and a second, modified one: the response      *)
(* carries the cookie of the second alone.                                 *)
C3_Witness ==
    /\ phase = "saved"
    /\ Resolved("session") /\ CookieBacked("session")
    /\ ~Tracked("session").new /\ ~Tracked("session").modified
    /\ Truthy(Tracked("session").data)
    /\ Resolved("other") /\ CookieBacked("other")
    /\ Tracked("other").modified
    /\ DOMAIN response = {"other"}

(* The step is the call op on the SessionDict c with the given key. *)
Called(op, c, key) == IsCall /\ ret'.op = op /\ ret'.self = c /\ ret'.key = key

(* The list stored under a flash key, empty when the key is absent. *)
Flashes(sd, key) == IF Has(sd.data, key) THEN sd.data[key] ELSE << >>

(* C7 as stated: get_flashes returns exactly the pairs passed to add_flash *)
(* since the SessionDict was created.  On a SessionDict that no call has   *)
(* modified no pair was added, so get_flashes returns the empty list.      *)
C7_OnlyAddedFlashes ==
    [][ \A c \in refs, key \in FlashKeys :
           ~heap[c].modified /\ Called("get_flashes", c, key)
           => ret'.val = << << >> >> ]_vars

(* C7, amended: get_flashes(key) returns the list stored under key (the    *)
(* pairs the SessionDict was created with, then those added since the key  *)
(* was last removed) and removes the key, leaving the other keys alone, so *)
(* that get_flashes(key) right after it returns the empty list; add_flash  *)
(* appends its pair to the stored list and sets modified.                  *)
C7_FlashesInOrder ==
    [][ \A c \in refs, key \in FlashKeys :
           /\ Called("get_flashes", c, key)
              => /\ ret'.exc = ""
                 /\ ret'.val = <<Flashes(heap[c], key)>>
                 /\ heap'[c].data = Remove(heap[c].data, key)
                 /\ get_flashes(heap'[c], key).val = << << >> >>
           /\ Called("add_flash", c, key)
              => /\ heap'[c].data = Put(heap[c].data, key,
                                        Append(Flashes(heap[c], key), ret'.args[1]))
                 /\ heap'[c].modified ]_vars

(* A new SessionDict: two pairs were added and get_flashes returned them   *)
(* in the order they were added.                                           *)
C7_Witness ==
    /\ ret.op = "get_flashes"
    /\ ret.val = << <<Flash2, Flash1>> >>
    /\ heap[ret.self].new
    /\ ~Has(heap[ret.self].data, "_flash")

(* C9: pop of an absent key leaves the data and the modified flag as they  *)
(* were: it raises KeyError without a default and returns the default with *)
(* one; get_flashes of an absent flash key returns the empty list.         *)
C9_PopAbsentKey ==
    [][ \A c \in refs, key \in Keys :
           ~Has(heap[c].data, key)
           => /\ Called("pop", c, key)
                 => /\ heap' = heap
                    /\ IF ret'.args = << >>
                       THEN ret'.exc = "KeyError"
                       ELSE ret'.exc = "" /\ ret'.val = ret'.args
              /\ Called("get_flashes", c, key)
                 => /\ heap' = heap
                    /\ ret'.exc = "" /\ ret'.val = << << >> >> ]_vars

(* pop with a default returned the default on an unmodified SessionDict    *)
(* that holds other data.                                                  *)
C9_Witness ==
    /\ ret.op = "pop" /\ ret.exc = "" /\ ret.key = "_flash"
    /\ ret.val = <<"default">>
    /\ ~heap[ret.self].modified
    /\ Has(heap[ret.self].data, "user")

(* The cookie of a name is there and does not verify under max_age. *)
FailsVerification(name, max_age) ==
    /\ Has(cookies, name)
    /\ \/ cookies[name] = << >>
       \/ deserialize(name, cookies[name], max_age) = << >>

(* The max_age a get_session call with argument max_age_arg verifies with. *)
EffectiveMaxAge(max_age_arg) ==
    IF max_age_arg = DEFAULT_VALUE THEN config.session_max_age ELSE max_age_arg

(* C8: when the cookie of the name is present and fails verification (bad  *)
(* signature, malformed, or older than the effective max-age), get_session *)
(* returns without raising a SessionDict that is new, empty and unmodified *)
(* as it does without a cookie, and save_sessions on it, unmodified, sets  *)
(* no cookie.                                                              *)
C8_BadCookieIsNoCookie ==
    [][ /\ \A name \in Names, max_age_arg \in MaxAgeArgs :
             /\ ~Has(sessions, name)
             /\ FailsVerification(name, EffectiveMaxAge(max_age_arg))
             /\ IsCall /\ ret'.op = "get_session" /\ ret'.name = name
             /\ ret'.args[1] = max_age_arg
             => /\ ret'.exc = ""
                /\ heap'[ret'.val[1]] =
                     [container |-> name, new |-> TRUE, modified |-> FALSE,
                      data |-> EmptyDict]
        /\ \A name \in DOMAIN sessions :
             /\ SaveSessions
             /\ Has(cookies, name) /\ CookieBacked(name) /\ Resolved(name)
             /\ Tracked(name).new /\ ~Tracked(name).modified
             => /\ Has(response', name) = Has(response, name)
                /\ Has(response, name) => response'[name] = response[name] ]_vars

(* save_sessions has run on the unmodified, new and empty SessionDict that *)
(* get_session made of a correctly signed cookie that was too old.         *)
C8_Witness ==
    /\ phase = "saved"
    /\ Has(cookies, "session") /\ cookies["session"] # << >>
    /\ deserialize("session", cookies["session"], NoneAge) # << >>
    /\ Resolved("session")
    /\ Tracked("session").new /\ ~Tracked("session").modified
    /\ ~Truthy(Tracked("session").data)
    /\ ~Has(response, "session")

---------------------------------------------------------------------------
(* Properties of the store (SpecStore). *)

(* The name a get_session call with argument name_arg is about. *)
ResolvedName(name_arg) ==
    IF name_arg # << >> /\ name_arg[1] # "" THEN name_arg[1] ELSE config.cookie_name

(* C4: the store tracks one factory per session name, and every reference  *)
(* get_session has returned for a name is the one SessionDict that name's  *)
(* factory holds (a name that is omitted, None or empty being the          *)
(* configured cookie_name), so all of them are the same object and see the *)
(* same data.                                                              *)
C4_OneSessionPerName ==
    /\ \A name \in DOMAIN sessions : sessions[name].name = name
    /\ \A c \in refs :
          /\ c \in DOMAIN heap
          /\ Resolved(heap[c].container)
          /\ sessions[heap[c].container].session = c
    /\ Len(heap) = Cardinality({name \in DOMAIN sessions : Resolved(name)})
    /\ ret.op = "get_session"
       => /\ ret.name = ResolvedName(ret.args[2])
          /\ ret.val = <<sessions[ret.name].session>>

(* get_session without a name returned the SessionDict of "session" that   *)
(* an earlier reference had already modified, on a store with two names.   *)
C4_Witness ==
    /\ Cardinality(refs) = 2
    /\ ret.op = "get_session" /\ ret.args[2] = << >>
    /\ ret.name = "session"
    /\ heap[ret.val[1]].modified
    /\ Has(heap[ret.val[1]].data, "user") /\ heap[ret.val[1]].data["user"] = "bob"

(* C10: a get_session call for a name that already has a factory creates   *)
(* no factory, leaves the tracked factory and its SessionDict as they are  *)
(* and returns that SessionDict, whatever factory the call passes; the     *)
(* factory class of a name never changes.                                  *)
C10_BindingIsPermanent ==
    [][ /\ \A name \in DOMAIN sessions \cap DOMAIN sessions' :
              sessions'[name].factory = sessions[name].factory
        /\ \A name \in DOMAIN sessions :
              IsCall /\ ret'.op = "get_session" /\ ret'.name = name
              => /\ sessions' = sessions
                 /\ heap' = heap
                 /\ ret'.exc = ""
                 /\ ret'.val = <<sessions[name].session>> ]_vars

(* get_session asked for the custom backend on a name bound to the cookie  *)
(* factory and got the cookie factory's SessionDict, modified earlier.     *)
C10_Witness ==
    /\ ret.op = "get_session"
    /\ ret.args[3] = CustomBackendSessionFactory
    /\ sessions[ret.name].factory = SecureCookieSessionFactory
    /\ ret.val = <<sessions[ret.name].session>>
    /\ heap[ret.val[1]].modified

---------------------------------------------------------------------------
(* Properties of consecutive requests (SpecFlow). *)

(* The cookie of the name is a token that verifies now under max_age. *)
Verifies(name, max_age) ==
    /\ Has(cookies, name) /\ cookies[name] # << >>
    /\ deserialize(name, cookies[name], max_age) # << >>

(* What get_session() followed by get_flashes() returns at this point of a *)
(* request that has not yet used the session.                              *)
FlashesOfRequest ==
    LET data == get_secure_cookie(config.cookie_name, DEFAULT_VALUE)
    IN  get_flashes(SessionDict(config.cookie_name, data, data = << >>), "_flash").val

(* C5: a request without cookie gets a new, empty session; when its        *)
(* handler has set keys, save_sessions sets the cookie named cookie_name   *)
(* with the session's data as verified payload; the client sends exactly   *)
(* that cookie with its next request; and get_session there, while the     *)
(* cookie is within max_age, returns that data with new = false.           *)
C5_SessionPersists ==
    [][ LET name == config.cookie_name
        IN  /\ ( /\ IsCall /\ ret'.op = "get_session" /\ ret'.name = name
                 /\ ~Has(sessions, name) /\ ~Has(cookies, name) )
               => heap'[ret'.val[1]] =
                    [container |-> name, new |-> TRUE, modified |-> FALSE,
                     data |-> EmptyDict]
            /\ ( /\ SaveSessions /\ Resolved(name)
                 /\ Tracked(name).modified /\ Truthy(Tracked(name).data) )
               => /\ Has(response', name)
                  /\ deserialize(name, response'[name].value, NoneAge)
                       = <<Tracked(name).data>>
            /\ ( NewRequest /\ Has(response, name) )
               => cookies'[name] = response[name].value
            /\ ( /\ IsCall /\ ret'.op = "get_session" /\ ret'.name = name
                 /\ ~Has(sessions, name)
                 /\ Verifies(name, config.session_max_age) )
               => heap'[ret'.val[1]] =
                    [container |-> name, new |-> FALSE, modified |-> FALSE,
                     data |-> Decode(cookies[name][1])] ]_vars

(* The second request got back, as a session that is not new, the two keys *)
(* the first request's handler had set.                                    *)
C5_Witness ==
    /\ reqNo = 2 /\ now > 0
    /\ ret.op = "get_session"
    /\ ~heap[ret.val[1]].new
    /\ heap[ret.val[1]].data = [user |-> "alice", _flash |-> <<Flash1>>]

(* C6: when the request's session came from a cookie that holds flash      *)
(* messages, the handler has read them with get_flashes and save_sessions  *)
(* has run, get_flashes() in the next request returns the empty list.      *)
C6_FlashReadOnce ==
    [][ LET name == config.cookie_name
        IN  ( /\ NewRequest
              /\ Resolved(name) /\ ~Tracked(name).new
              /\ FlashesOfRequest # << << >> >>
              /\ ~Has(Tracked(name).data, "_flash") )
            => FlashesOfRequest' = << << >> >> ]_vars


---------------------------------------------------------------------------
(* SpecConfig: the store of a request is constructed and used under a      *)
(* configuration that may lack the secret key.                             *)

(* webapp2_config.REQUIRED_VALUE: the marker of an option without default. *)
REQUIRED_VALUE == "REQUIRED_VALUE"

(* securecookie.SecureCookieSerializer(secret_key): the exception its      *)
(* construction raises, "" for none.                                       *)
SecureCookieSerializer(secret_key) ==
    IF secret_key = REQUIRED_VALUE \/ secret_key = "" THEN "ConfigError" ELSE ""

(* SessionStore.__init__ keeps the request and the configuration and      *)
(* starts with no session; it does not look at the secret key.            *)
SessionStore_init(cfg) == [exc |-> ""]

(* The cached property serializer: built from the secret key when it is    *)
(* first read, and again on every read that follows a failed one.          *)
serializer == SecureCookieSerializer(config.secret_key)

(* The exception get_secure_cookie raises: it reads the signer only for a  *)
(* cookie with a non-empty value.                                          *)
get_secure_cookie_exc(name) ==
    IF Has(cookies, name) /\ cookies[name] # << >> THEN serializer ELSE ""

(* The exception save_secure_cookie raises. *)
save_secure_cookie_exc == serializer

(* The exception get_session of a bound container raises: the cookie is    *)
(* read unless the session is resolved already.                            *)
container_get_session_exc(st, name) ==
    IF st.sessions[name].session = 0 THEN get_secure_cookie_exc(name) ELSE ""

(* The exception save_sessions raises: that of the first cookie written.   *)
save_sessions_exc(st, resp) ==
    IF \E name \in DOMAIN st.sessions :
          container_save_session(st, name, EmptyDict) # EmptyDict
    THEN save_secure_cookie_exc ELSE ""

ConfigCookies ==
    { EmptyDict,
      [session |-> << >>],
      [session |-> Token("session", [user |-> "alice"], 0)] }

InitConfig ==
    /\ now = 0
    /\ config \in {[default_config EXCEPT !.secret_key = k] : k \in {"s3cret", REQUIRED_VALUE}}
    /\ cookies \in ConfigCookies
    /\ reqNo = 1
    /\ phase = "start"
    /\ sessions = EmptyDict
    /\ heap = << >>
    /\ refs = {}
    /\ response = EmptyDict
    /\ ret = Result("request", 0, "", "", << >>, "", << >>)
    /\ registry = [request \in Requests |-> EmptyDict]
    /\ stores = << >>

(* The framework constructs the store of the request. *)
Construct ==
    /\ phase = "start"
    /\ LET r == SessionStore_init(config)
       IN  /\ phase' = IF r.exc = "" THEN "handling" ELSE "failed"
           /\ ret' = Result("__init__", 0, "", "", << >>, r.exc, << >>)
    /\ UNCHANGED <<now, config, cookies, reqNo, sessions, heap, refs, response>>
    /\ UNCHANGED <<registry, stores>>

(* get_session under a configuration whose signer may fail: the container  *)
(* is bound before the cookie is read.                                     *)
GetSessionChecked ==
    /\ phase = "handling"
    /\ \E name_arg \in NameArgs, fresh \in NewSids :
          LET name  == IF name_arg # << >> /\ name_arg[1] # ""
                       THEN name_arg[1] ELSE config.cookie_name
              bound == get_session_container(Store, name, SecureCookieSessionFactory)
              exc   == container_get_session_exc(bound, name)
              r     == SessionStore_get_session(Store, name_arg, DEFAULT_VALUE,
                                                SecureCookieSessionFactory, fresh)
          IN  IF exc = ""
              THEN /\ sessions' = r.st.sessions
                   /\ heap' = r.st.heap
                   /\ refs' = refs \cup {r.val}
                   /\ ret' = Result("get_session", 0, name, "",
                                    <<DEFAULT_VALUE, name_arg, SecureCookieSessionFactory>>,
                                    "", <<r.val>>)
              ELSE /\ sessions' = bound.sessions
                   /\ UNCHANGED <<heap, refs>>
                   /\ ret' = Result("get_session", 0, name, "",
                                    <<DEFAULT_VALUE, name_arg, SecureCookieSessionFactory>>,
                                    exc, << >>)
    /\ UNCHANGED <<now, config, cookies, reqNo, phase, response>>
    /\ UNCHANGED <<registry, stores>>

GetSecureCookieChecked ==
    /\ phase = "handling"
    /\ \E name \in Names :
          LET exc == get_secure_cookie_exc(name)
          IN  ret' = Result("get_secure_cookie", 0, name, "", << >>, exc,
                            IF exc = "" THEN get_secure_cookie(name, DEFAULT_VALUE)
                            ELSE << >>)
    /\ UNCHANGED <<now, config, cookies, reqNo, phase, sessions, heap, refs, response>>
    /\ UNCHANGED <<registry, stores>>

SaveSecureCookieChecked ==
    /\ phase = "handling"
    /\ \E name \in Names, value \in {EmptyDict, [user |-> "alice"]} :
          LET exc == save_secure_cookie_exc
          IN  /\ response' = IF exc = ""
                             THEN save_secure_cookie(response, name, value, EmptyDict)
                             ELSE response
              /\ ret' = Result("save_secure_cookie", 0, name, "", << >>, exc, << >>)
    /\ UNCHANGED <<now, config, cookies, reqNo, phase, sessions, heap, refs>>
    /\ UNCHANGED <<registry, stores>>

SaveSessionsChecked ==
    /\ phase = "handling"
    /\ LET exc == save_sessions_exc(Store, response)
       IN  /\ response' = IF exc = "" THEN save_sessions(Store, response) ELSE response
           /\ ret' = Result("save_sessions", 0, "", "", << >>, exc, << >>)
    /\ phase' = "saved"
    /\ UNCHANGED <<now, config, cookies, reqNo, sessions, heap, refs>>
    /\ UNCHANGED <<registry, stores>>

NextConfig ==
    \/ Construct
    \/ GetSessionChecked
    \/ GetSecureCookieChecked
    \/ SaveSecureCookieChecked
    \/ SetItem
    \/ SaveSessionsChecked

SpecConfig == InitConfig /\ [][NextConfig]_vars

(* C11: a configuration without a usable secret key makes the construction *)
(* of the SessionStore fail, so that no get_session, get_secure_cookie or  *)
(* save operation ever runs under it and none of them is the one to raise  *)
(* the configuration error.                                                *)
C11_KeyCheckedAtConstruction ==
    [][ /\ ( IsCall /\ ret'.op = "__init__"
             /\ SecureCookieSerializer(config.secret_key) # "" )
           => ret'.exc = "ConfigError"
        /\ ( IsCall /\ ret'.op # "__init__" ) => ret'.exc # "ConfigError" ]_vars


---------------------------------------------------------------------------
(* Properties of set_secure_cookie (SpecStore). *)

(* The step is set_secure_cookie(name, value, **kwargs) returning normally. *)
SetsSecureCookie(name, value, kwargs) ==
    /\ IsCall
    /\ ret'.op = "set_secure_cookie"
    /\ ret'.name = name
    /\ ret'.args = <<value, kwargs>>
    /\ ret'.exc = ""

(* The data the session of name holds before a call resolves it: that of   *)
(* its SessionDict, or else the verified payload of the request's cookie.  *)
PreviousData(name) ==
    IF Resolved(name) THEN Tracked(name).data
    ELSE LET data == get_secure_cookie(name, DEFAULT_VALUE)
         IN  IF data = << >> THEN EmptyDict ELSE data[1]

(* The cookie attributes of name before a call binds it. *)
PreviousArgs(name) ==
    IF Has(sessions, name) THEN sessions[name].session_args.items ELSE config.cookie_args

(* C12: after set_secure_cookie(name, value, **options) with a mapping     *)
(* value, whatever backend name had before (none, a cookie-backed one, one *)
(* of another factory), name has a cookie-backed session, whose data is    *)
(* the previous data overridden by value and is modified, and whose cookie *)
(* attributes are the previous ones overridden by options.                 *)
C12_SetSecureCookie ==
    [][ \A name \in Names, value \in CookieValueArgs, kwargs \in CookieKwargs :
           SetsSecureCookie(name, value, kwargs)
           => /\ CookieBacked(name)'
              /\ Resolved(name)'
              /\ Tracked(name)'.data = Merge(PreviousData(name), value.items)
              /\ Tracked(name)'.modified
              /\ sessions'[name].session_args.items = Merge(PreviousArgs(name), kwargs) ]_vars


(* C13: set_secure_cookie with a value that is not a dict raises at the    *)
(* call and changes nothing: the store tracks the same backends with the   *)
(* same cookie attributes, every SessionDict keeps its data and flags, and *)
(* the response is as before.                                              *)
C13_NonMappingRejected ==
    [][ ( /\ IsCall
          /\ ret'.op = "set_secure_cookie"
          /\ ret'.args[1].type # "dict" )
        => /\ ret'.exc = "AssertionError"
           /\ sessions' = sessions
           /\ heap' = heap
           /\ refs' = refs
           /\ response' = response ]_vars

(* set_secure_cookie has raised on a name the store does not track, while  *)
(* the store tracks a modified session under the other name.               *)
C13_Witness ==
    /\ ret.op = "set_secure_cookie"
    /\ ret.exc = "AssertionError"
    /\ ~Has(sessions, ret.name)
    /\ \E name \in Names : Resolved(name) /\ Tracked(name).modified


---------------------------------------------------------------------------
(* SpecRegistry: get_store and set_store on the registries of the requests *)
(* in flight.  A store object is the record [factory, request, key]: what  *)
(* built it, for which request, and the registry key get_store built it    *)
(* for ("" when the handler built it itself).                              *)

registry_key == "webapp2_extras.sessions.SessionStore"

RegistryKeys == {registry_key, "app.sessions"}

StoreFactories == {"SessionStore"}

(* get_store that builds a store on every call. *)
get_store_rebuilds(reg, objs, factory, key, request) ==
    LET store == Len(objs) + 1
    IN  [ reg  |-> [reg EXCEPT ![request] = Put(@, key, store)],
          objs |-> Append(objs, [factory |-> factory, request |-> request, key |-> key]),
          val  |-> store ]

(* get_store returns [reg, objs, val]: the registries, the objects and the *)
(* reference returned.  A store object is true, None (0) is false.         *)
get_store(reg, objs, factory, key, request) ==
    LET store == IF Has(reg[request], key) THEN reg[request][key] ELSE 0
        built == Len(objs) + 1
    IN  IF store = 0
        THEN [ reg  |-> [reg EXCEPT ![request] = Put(@, key, built)],
               objs |-> Append(objs, [factory |-> factory, request |-> request,
                                      key |-> key]),
               val  |-> built ]
        ELSE [reg |-> reg, objs |-> objs, val |-> store]

set_store(reg, store, key, request) == [reg EXCEPT ![request] = Put(@, key, store)]

InitRegistry == InitWith({EmptyDict}, {NoneAge})

GetStore ==
    /\ \E request \in Requests, key \in RegistryKeys, factory \in StoreFactories :
          LET r == get_store(registry, stores, factory, key, request)
          IN  /\ Len(r.objs) <= MaxStores
              /\ registry' = r.reg
              /\ stores' = r.objs
              /\ ret' = Result("get_store", 0, request, key, <<factory>>, "", <<r.val>>)
    /\ UNCHANGED <<now, config, cookies, reqNo, phase, sessions, heap, refs, response>>

(* The handler of a request builds a store itself. *)
BuildStore ==
    /\ Len(stores) < MaxStores
    /\ \E request \in Requests, factory \in StoreFactories :
          /\ stores' = Append(stores, [factory |-> factory, request |-> request,
                                       key |-> ""])
          /\ ret' = Result("__init__", 0, request, "", <<factory>>, "", <<Len(stores')>>)
    /\ UNCHANGED <<now, config, cookies, reqNo, phase, sessions, heap, refs, response>>
    /\ UNCHANGED registry

(* The handler of a request registers a store built for that request. *)
SetStore ==
    /\ \E request \in Requests, key \in RegistryKeys, store \in DOMAIN stores :
          /\ stores[store].request = request
          /\ registry' = set_store(registry, store, key, request)
          /\ ret' = Result("set_store", 0, request, key, <<store>>, "", << >>)
    /\ UNCHANGED <<now, config, cookies, reqNo, phase, sessions, heap, refs, response>>
    /\ UNCHANGED stores

NextRegistry ==
    \/ GetStore
    \/ BuildStore
    \/ SetStore

SpecRegistry == InitRegistry /\ [][NextRegistry]_vars

(* The stores get_store built for the key of the request. *)
BuiltFor(objs, request, key) ==
    {s \in DOMAIN objs : objs[s].request = request /\ objs[s].key = key}

(* C14: get_store on a key the registry of the request holds returns the   *)
(* registered store and builds nothing, so that get_store builds at most   *)
(* one store for a request and key; get_store returns what the registry    *)
(* holds afterwards; after set_store the registry holds the store given;   *)
(* and no store is registered with two requests.                           *)
C14_StoreLookup ==
    [][ /\ \A request \in Requests, key \in RegistryKeys :
             /\ ( IsCall /\ ret'.op = "get_store"
                  /\ ret'.name = request /\ ret'.key = key )
                => /\ ret'.val = <<registry'[request][key]>>
                   /\ Has(registry[request], key)
                      => /\ ret'.val = <<registry[request][key]>>
                         /\ stores' = stores
                         /\ registry' = registry
             /\ ( IsCall /\ ret'.op = "set_store"
                  /\ ret'.name = request /\ ret'.key = key )
                => registry'[request][key] = ret'.args[1]
             /\ ret'.op \notin {"get_store", "set_store"}
                => registry'[request] = registry[request]
             /\ Cardinality(BuiltFor(stores', request, key)) <= 1
        /\ \A r1, r2 \in Requests : \A k1 \in DOMAIN registry'[r1], k2 \in DOMAIN registry'[r2] :
              r1 # r2 => registry'[r1][k1] # registry'[r2][k2] ]_vars

(* get_store has returned the store that set_store put in the place of the *)
(* one an earlier get_store had built, while the other request has a store *)
(* of its own.                                                             *)
C14_Witness ==
    \E request \in Requests, key \in RegistryKeys :
       /\ ret.op = "get_store" /\ ret.name = request /\ ret.key = key
       /\ BuiltFor(stores, request, key) # {}
       /\ stores[ret.val[1]].key = ""
       /\ \E other \in Requests \ {request} : Truthy(registry[other])


---------------------------------------------------------------------------
(* Properties of the max_age of get_session (Spec). *)

(* The SessionDict a cookie-backed session becomes when its cookie is read *)
(* with the given max_age.                                                 *)
ReadWith(name, max_age) ==
    LET data == IF Has(cookies, name) /\ cookies[name] # << >>
                THEN deserialize(name, cookies[name], max_age) ELSE << >>
    IN  SessionDict(name, data, data = << >>)

(* The step is the get_session call that resolves name, with max_age_arg.  *)
ResolvesWith(name, max_age_arg) ==
    /\ IsCall
    /\ ret'.op = "get_session"
    /\ ret'.name = name
    /\ ret'.args[1] = max_age_arg
    /\ ~Resolved(name)

(* C15: the get_session call that resolves a session reads the cookie with *)
(* the max_age it was passed, an explicit None included (no expiry check), *)
(* and with the configured session_max_age only when max_age was omitted;  *)
(* when that is None too, there is no expiry check.                        *)
C15_EffectiveMaxAge ==
    [][ \A name \in Names :
           /\ \A max_age \in MaxAgeArgs \ {DEFAULT_VALUE} :
                 ResolvesWith(name, max_age)
                 => heap'[ret'.val[1]] = ReadWith(name, max_age)
           /\ ResolvesWith(name, DEFAULT_VALUE)
              => heap'[ret'.val[1]] = ReadWith(name, config.session_max_age)
           /\ ( /\ \/ ResolvesWith(name, NoneAge)
                   \/ ResolvesWith(name, DEFAULT_VALUE) /\ config.session_max_age = NoneAge
                /\ Verifies(name, NoneAge) )
              => /\ ~heap'[ret'.val[1]].new
                 /\ <<heap'[ret'.val[1]].data>> = deserialize(name, cookies[name], NoneAge) ]_vars

(* get_session(max_age=None) has accepted a cookie that is older than the  *)
(* configured session_max_age.                                             *)
C15_Witness ==
    /\ ret.op = "get_session" /\ ret.args[1] = NoneAge
    /\ config.session_max_age # NoneAge
    /\ ~Verifies(ret.name, config.session_max_age)
    /\ Verifies(ret.name, NoneAge)
    /\ ~heap[ret.val[1]].new /\ ~heap[ret.val[1]].modified
    /\ Truthy(heap[ret.val[1]].data)


---------------------------------------------------------------------------
(* Properties of the cookie attributes (SpecStore). *)

(* The step changes the attributes of the backend of name on purpose. *)
WritesArgsOf(name) ==
    /\ IsCall
    /\ ret'.op \in {"set_secure_cookie", "session_args.update"}
    /\ ret'.name = name

(* C16: a backend starts with the configured cookie_args (overridden by    *)
(* the options of the set_secure_cookie call that creates it); no call     *)
(* changes the configured cookie_args; the attributes of a name change     *)
(* only by a set_secure_cookie or a session_args write for that very name; *)
(* and save_sessions writes the cookie of each cookie-backed session with  *)
(* the attributes its own backend has at that moment.                      *)
C16_ArgsPerName ==
    [][ /\ config'.cookie_args = config.cookie_args
        /\ \A name \in DOMAIN sessions' \ DOMAIN sessions :
              sessions'[name].session_args.items =
                 IF ret'.op = "set_secure_cookie"
                 THEN Merge(config.cookie_args, ret'.args[2])
                 ELSE config.cookie_args
        /\ \A name \in DOMAIN sessions \cap DOMAIN sessions' :
              ~WritesArgsOf(name)
              => sessions'[name].session_args.items = sessions[name].session_args.items
        /\ SaveSessions
           => \A name \in DOMAIN response' :
                 CookieBacked(name)
                 => response'[name].args = sessions[name].session_args.items ]_vars

(* Two sessions were saved, one with attributes of its own and one with    *)
(* the configured ones.                                                    *)
C16_Witness ==
    /\ phase = "saved"
    /\ DOMAIN response = Names
    /\ response["session"].args = config.cookie_args
    /\ response["other"].args # config.cookie_args
    /\ response["other"].args = sessions["other"].session_args.items
    /\ config.cookie_args = default_config.cookie_args
    /\ CookieBacked("session") /\ CookieBacked("other")
    /\ ret.op = "save_sessions"


---------------------------------------------------------------------------
(* SpecSid: _is_valid_sid applied to one session id taken from a cookie.   *)

OtherChars == {"A", "g", "7", " ", "\n"}

(* Ids of every length up to SidLen, ids with one character replaced, ids  *)
(* with something in front or behind.                                      *)
SidInputs ==
    {SubSeq(SidB, 1, n) : n \in 0..SidLen} \cup
    {[SidB EXCEPT ![i] = c] : i \in 1..SidLen, c \in OtherChars} \cup
    {SidA \o tail : tail \in {<<"\n">>, <<"0">>, <<"\n", "\n">>, <<"\n", "a">>}} \cup
    {<<"\n">> \o SidA, SidA, SidUpper}

InitSid ==
    /\ now = 0
    /\ config = default_config
    /\ cookies = EmptyDict
    /\ reqNo = 1
    /\ phase = "handling"
    /\ sessions = EmptyDict
    /\ heap = << >>
    /\ refs = {}
    /\ response = EmptyDict
    /\ \E sid \in SidInputs : ret = Result("request", 0, "", "", <<sid>>, "", << >>)
    /\ registry = [request \in Requests |-> EmptyDict]
    /\ stores = << >>

IsValidSid ==
    /\ ret.op = "request"
    /\ ret' = Result("_is_valid_sid", 0, "", "", ret.args, "",
                     <<is_valid_sid(ret.args[1])>>)
    /\ UNCHANGED <<now, config, cookies, reqNo, phase, sessions, heap, refs, response>>
    /\ UNCHANGED <<registry, stores>>

NextSid == IsValidSid

SpecSid == InitSid /\ [][NextSid]_vars

(* C17: _is_valid_sid(sid) is true exactly when sid has SidLen characters, *)
(* each of them one of 0-9 and a-f; it is false for None, the empty        *)
(* string, anything shorter or longer (a valid id followed by a newline    *)
(* included) and anything with another character.                          *)
C17_SidShape ==
    ret.op = "_is_valid_sid"
    => LET sid == ret.args[1]
       IN  ret.val[1] <=> ( /\ Len(sid) = SidLen
                            /\ \A i \in 1..SidLen : sid[i] \in HexChars )


---------------------------------------------------------------------------
(* SpecCookie: one request whose handler uses sessions and, next to them,  *)
(* get_secure_cookie and save_secure_cookie.                               *)

PlainCookies ==
    { EmptyDict,
      [session |-> << >>],
      [session |-> Token("session", [user |-> "alice"], 0)] }

InitCookie == InitWith(PlainCookies, {NoneAge})

GetSessionCookie == GetSessionWith({<< >>, <<"other">>}, {DEFAULT_VALUE},
                                   {SecureCookieSessionFactory})

NextCookie ==
    \/ GetSessionCookie
    \/ SetItem
    \/ GetSecureCookie
    \/ SaveSecureCookie
    \/ SaveSessions

SpecCookie == InitCookie /\ [][NextCookie]_vars

(* C18: get_secure_cookie and save_secure_cookie leave the store as it is: *)
(* the same backends, the same SessionDict objects with the same data and  *)
(* flags; save_secure_cookie sets the cookie of the name on the response   *)
(* whatever session the store tracks under that name; get_secure_cookie    *)
(* changes no response and returns None for a name whose cookie the        *)
(* request lacks or sends empty.                                           *)
C18_Passthrough ==
    [][ \A name \in Names :
           /\ ( IsCall /\ ret'.op \in {"get_secure_cookie", "save_secure_cookie"} )
              => /\ sessions' = sessions
                 /\ heap' = heap
           /\ ( IsCall /\ ret'.op = "save_secure_cookie" /\ ret'.name = name )
              => /\ ret'.exc = ""
                 /\ Has(response', name)
                 /\ response'[name].value # << >>
           /\ ( IsCall /\ ret'.op = "get_secure_cookie" /\ ret'.name = name )
              => /\ response' = response
                 /\ ( ~Has(cookies, name) \/ cookies[name] = << >> )
                    => ret'.val = << >> ]_vars

(* save_secure_cookie has set the cookie of a name whose session the store *)
(* tracks, resolved from the request's cookie and never modified.          *)
C18_Witness ==
    /\ ret.op = "save_secure_cookie"
    /\ Resolved(ret.name) /\ CookieBacked(ret.name)
    /\ ~Tracked(ret.name).modified /\ ~Tracked(ret.name).new
    /\ Has(response, ret.name)
    /\ phase = "handling"


(* C19: the get_session call that resolves a name decides, by the max_age  *)
(* in force for it, whether the cookie's data is taken; every later        *)
(* get_session for the name, whatever max_age it passes and however old    *)
(* the cookie is by then, reads nothing: it creates no SessionDict, leaves *)
(* the data and the flags of the resolved one as they are and returns it.  *)
C19_CookieReadOnce ==
    [][ \A name \in Names, max_age \in MaxAgeArgs :
           /\ ResolvesWith(name, max_age)
              => heap'[ret'.val[1]].new = ~Verifies(name, EffectiveMaxAge(max_age))
           /\ ( /\ IsCall /\ ret'.op = "get_session" /\ ret'.name = name
                /\ ret'.args[1] = max_age
                /\ Resolved(name) )
              => /\ heap' = heap
                 /\ sessions' = sessions
                 /\ ret'.exc = ""
                 /\ ret'.val = <<sessions[name].session>> ]_vars

(* get_session with a max_age under which the cookie is expired by now has *)
(* returned the session that an earlier call resolved from that cookie and *)
(* the handler has modified since.                                         *)
C19_Witness ==
    /\ ret.op = "get_session"
    /\ ret.args[1] \notin {DEFAULT_VALUE, NoneAge}
    /\ ~Verifies(ret.name, ret.args[1])
    /\ Verifies(ret.name, NoneAge)
    /\ ~heap[ret.val[1]].new
    /\ heap[ret.val[1]].modified
    /\ Has(heap[ret.val[1]].data, "_flash")

====
